---- MODULE Spec2Model ----
(***************************************************************************)
(* Trace comparators of the ti84ce emulator project.                       *)
(*                                                                         *)
(*   scripts/find_first_divergence.py   dense, per-instruction traces      *)
(*   scripts/compare_sparse_traces.py   sparse, cycle-keyed snapshots      *)
(*                                                                         *)
(* Python's None is the empty sequence <<>> and a present value v is       *)
(* <<v>>; step and operation indices are Python's (0-based), so Python's   *)
(* ours[i] is ours[i + 1] here.                                            *)
(***************************************************************************)
EXTENDS Integers, Sequences, FiniteSets, TLC

VARIABLES
    mode,             \* which script runs: "dense" or "sparse"
    phase,            \* position in the script
    \* ---- find_first_divergence.py
    ours,             \* json.load(ours_path): sequence of steps
    cemu,             \* json.load(cemu_path): sequence of steps
    max_steps,        \* None or an integer
    check_io_ops,
    writes_only,
    ignore_old,
    i,                \* index of the next loop iteration
    first_pc_diff,
    first_reg_diff,
    first_io_diff,
    divergence_step,
    \* ---- compare_sparse_traces.py
    cemu_snaps,       \* load_snapshots(cemu_file)
    ours_snaps,       \* load_snapshots(ours_file)
    cemu_by_cycle,
    ours_by_cycle,
    common_cycles,
    pos,              \* how many cycles of common_cycles the loop has taken
    matches,
    divergences,
    \* ---- both
    compared,         \* history: the alignment keys whose records were compared
    out,              \* what has been printed, as a sequence of records
    exit_code         \* the process exit status, None while running

dense_vars == <<ours, cemu, max_steps, check_io_ops, writes_only, ignore_old,
                i, first_pc_diff, first_reg_diff, first_io_diff, divergence_step>>
sparse_vars == <<cemu_snaps, ours_snaps, cemu_by_cycle, ours_by_cycle, common_cycles,
                 pos, matches, divergences>>
vars == <<mode, phase, dense_vars, sparse_vars, compared, out, exit_code>>

\* ------------------------------------------------------------------ bounds
MaxLen == 3
MaxDiffs == 2
MaxLimit == 2
MaxCycle == 4

\* ------------------------------------------------------------------ Python
None == <<>>
Some(x) == <<x>>
\* truth value of an optional integer: None and 0 are false
TruthyInt(o) == o # None /\ o[1] # 0
\* truth value of an optional tuple: a non-empty tuple is true
TruthyTuple(o) == o # None
Min2(a, b) == IF a <= b THEN a ELSE b
Max2(a, b) == IF a >= b THEN a ELSE b
SetMin(S) == CHOOSE x \in S : \A y \in S : x <= y
\* dict.get(k, default)
Get(d, k, default) == IF k \in DOMAIN d THEN d[k] ELSE default

\* ------------------------------------------------------------------ dense
RegOrder == <<"A", "F", "BC", "DE", "HL", "IX", "IY", "SP">>

\* the writes-only filter left out
WritesOf_all(ops) == ops

\* [op for op in ops if op.get("type") == "write"]
WritesOf(ops) == SelectSeq(ops, LAMBDA op : Get(op, "type", "None") = "write")

\* the per-operation comparison with ignore_old never consulted
OpDiff_oldalways(our_op, cemu_op, idx, ign_old) ==
    LET g(op, k) == Get(op, k, "None")
        d(k) == Some([kind |-> k, idx |-> idx, ours |-> g(our_op, k), cemu |-> g(cemu_op, k)])
    IN  IF g(our_op, "type") # g(cemu_op, "type") THEN d("type")
        ELSE IF g(our_op, "target") # g(cemu_op, "target") THEN d("target")
        ELSE IF g(our_op, "addr") # g(cemu_op, "addr") THEN d("addr")
        ELSE IF g(our_op, "type") = "write"
             THEN IF g(our_op, "old") # g(cemu_op, "old") THEN d("old")
                  ELSE IF g(our_op, "new") # g(cemu_op, "new") THEN d("new")
                  ELSE None
             ELSE IF g(our_op, "value") # g(cemu_op, "value") THEN d("value")
                  ELSE None

\* the per-operation comparison with the address looked at before the target
OpDiff_addrfirst(our_op, cemu_op, idx, ign_old) ==
    LET g(op, k) == Get(op, k, "None")
        d(k) == Some([kind |-> k, idx |-> idx, ours |-> g(our_op, k), cemu |-> g(cemu_op, k)])
    IN  IF g(our_op, "type") # g(cemu_op, "type") THEN d("type")
        ELSE IF g(our_op, "addr") # g(cemu_op, "addr") THEN d("addr")
        ELSE IF g(our_op, "target") # g(cemu_op, "target") THEN d("target")
        ELSE IF g(our_op, "type") = "write"
             THEN IF ~ign_old /\ g(our_op, "old") # g(cemu_op, "old") THEN d("old")
                  ELSE IF g(our_op, "new") # g(cemu_op, "new") THEN d("new")
                  ELSE None
             ELSE IF g(our_op, "value") # g(cemu_op, "value") THEN d("value")
                  ELSE None

\* the body of the per-operation loop of compare_io_ops, for position idx
OpDiff(our_op, cemu_op, idx, ign_old) ==
    LET g(op, k) == Get(op, k, "None")
        d(k) == Some([kind |-> k, idx |-> idx, ours |-> g(our_op, k), cemu |-> g(cemu_op, k)])
    IN  IF g(our_op, "type") # g(cemu_op, "type") THEN d("type")
        ELSE IF g(our_op, "target") # g(cemu_op, "target") THEN d("target")
        ELSE IF g(our_op, "addr") # g(cemu_op, "addr") THEN d("addr")
        ELSE IF g(our_op, "type") = "write"
             THEN IF ~ign_old /\ g(our_op, "old") # g(cemu_op, "old") THEN d("old")
                  ELSE IF g(our_op, "new") # g(cemu_op, "new") THEN d("new")
                  ELSE None
             ELSE IF g(our_op, "value") # g(cemu_op, "value") THEN d("value")
                  ELSE None

\* compare_io_ops without the count check: zip stops at the shorter list
compare_io_ops_zip(ours_ops, cemu_ops, wo, ign_old) ==
    LET o == IF wo THEN WritesOf(ours_ops) ELSE ours_ops
        c == IF wo THEN WritesOf(cemu_ops) ELSE cemu_ops
        bad == {k \in 1..Min2(Len(o), Len(c)) : OpDiff(o[k], c[k], k - 1, ign_old) # None}
    IN  IF bad # {}
        THEN [match |-> FALSE,
              desc |-> OpDiff(o[SetMin(bad)], c[SetMin(bad)], SetMin(bad) - 1, ign_old)]
        ELSE [match |-> TRUE, desc |-> None]

\* compare_io_ops: [match, desc]
compare_io_ops(ours_ops, cemu_ops, wo, ign_old) ==
    LET o == IF wo THEN WritesOf(ours_ops) ELSE ours_ops
        c == IF wo THEN WritesOf(cemu_ops) ELSE cemu_ops
        bad == {k \in 1..Len(o) : OpDiff(o[k], c[k], k - 1, ign_old) # None}
    IN  IF Len(o) # Len(c)
        THEN [match |-> FALSE,
              desc |-> Some([kind |-> "count", ours |-> Len(o), cemu |-> Len(c)])]
        ELSE IF bad # {}
        THEN [match |-> FALSE,
              desc |-> OpDiff(o[SetMin(bad)], c[SetMin(bad)], SetMin(bad) - 1, ign_old)]
        ELSE [match |-> TRUE, desc |-> None]

\* the register loop without its break: the last differing register is kept
RegDiff_nobreak(step, our_regs, cemu_regs) ==
    LET val(regs, r) == Get(regs, r, "?")
        bad == {k \in 1..Len(RegOrder) : val(our_regs, RegOrder[k]) # val(cemu_regs, RegOrder[k])}
    IN  IF bad = {} THEN None
        ELSE LET r == RegOrder[CHOOSE k \in bad : \A j \in bad : j <= k]
             IN  Some([step |-> step, reg |-> r,
                       ours |-> val(our_regs, r), cemu |-> val(cemu_regs, r)])

\* the register loop of one step: the first differing register in RegOrder
RegDiff(step, our_regs, cemu_regs) ==
    LET val(regs, r) == Get(regs, r, "?")
        bad == {k \in 1..Len(RegOrder) : val(our_regs, RegOrder[k]) # val(cemu_regs, RegOrder[k])}
    IN  IF bad = {} THEN None
        ELSE LET r == RegOrder[SetMin(bad)]
             IN  Some([step |-> step, reg |-> r,
                       ours |-> val(our_regs, r), cemu |-> val(cemu_regs, r)])

\* min_len of compare_traces
MinLen(o, c, ms) ==
    IF TruthyInt(ms) THEN Min2(Min2(Len(o), Len(c)), ms[1])
    ELSE Min2(Len(o), Len(c))

min_len == MinLen(ours, cemu, max_steps)

\* the loop's exit test after an iteration
ScanBreak(pcd, regd, iod) == pcd # None \/ regd # None \/ iod # None

\* one iteration of "for i in range(min_len)"
ScanStep ==
    /\ mode = "dense" /\ phase = "scan"
    /\ i < min_len
    /\ LET our_step == ours[i + 1]
           cemu_step == cemu[i + 1]
           our_pc == Get(our_step, "pc", "?")
           cemu_pc == Get(cemu_step, "pc", "?")
           our_regs == Get(our_step, "regs_before", <<>>)
           cemu_regs == Get(cemu_step, "regs_before", <<>>)
           our_io_ops == Get(our_step, "io_ops", <<>>)
           cemu_io_ops == Get(cemu_step, "io_ops", <<>>)
           pcd == IF first_pc_diff = None /\ our_pc # cemu_pc
                  THEN Some(i) ELSE first_pc_diff
           regd == IF first_reg_diff = None
                   THEN RegDiff(i, our_regs, cemu_regs) ELSE first_reg_diff
           res == compare_io_ops(our_io_ops, cemu_io_ops, writes_only, ignore_old)
           iod == IF check_io_ops /\ first_io_diff = None /\ ~res.match
                  THEN Some([step |-> i, desc |-> res.desc[1],
                             our_ops |-> our_io_ops, cemu_ops |-> cemu_io_ops])
                  ELSE first_io_diff
       IN  /\ first_pc_diff' = pcd
           /\ first_reg_diff' = regd
           /\ first_io_diff' = iod
           /\ IF ScanBreak(pcd, regd, iod)
              THEN phase' = "report" /\ i' = i
              ELSE phase' = "scan" /\ i' = i + 1
    /\ compared' = Append(compared, i)
    /\ UNCHANGED <<mode, ours, cemu, max_steps, check_io_ops, writes_only, ignore_old,
                   divergence_step, sparse_vars, out, exit_code>>

\* range(min_len) is exhausted without a break
ScanExhausted ==
    /\ mode = "dense" /\ phase = "scan"
    /\ i >= min_len
    /\ phase' = "report"
    /\ UNCHANGED <<mode, dense_vars, sparse_vars, compared, out, exit_code>>

\* divergence_step after the three "if first_*_diff:" blocks
StepAfterReg(regd) == IF TruthyTuple(regd) THEN Some(regd[1].step) ELSE None
StepAfterIo(ds, iod) ==
    IF TruthyTuple(iod)
    THEN (IF ds = None THEN Some(iod[1].step) ELSE Some(Min2(ds[1], iod[1].step)))
    ELSE ds
StepAfterPc(ds, pcd) ==
    IF TruthyInt(pcd)
    THEN (IF ds = None THEN pcd ELSE Some(Min2(ds[1], pcd[1])))
    ELSE ds
DivergenceStep(pcd, regd, iod) == StepAfterPc(StepAfterIo(StepAfterReg(regd), iod), pcd)

\* what the three blocks print
ReportLines(pcd, regd, iod) ==
    (IF TruthyTuple(regd)
     THEN <<[kind |-> "reg", step |-> regd[1].step, reg |-> regd[1].reg,
             ours |-> regd[1].ours, cemu |-> regd[1].cemu]>>
     ELSE <<>>)
    \o (IF TruthyTuple(iod)
        THEN <<[kind |-> "io", step |-> iod[1].step, desc |-> iod[1].desc]>>
        ELSE <<>>)
    \o (IF TruthyInt(pcd) THEN <<[kind |-> "pc", step |-> pcd[1]]>> ELSE <<>>)

\* a window that runs one row further, to d + 3
ContextRows_three(d, n) ==
    LET lo == Max2(0, d - 3)
        hi == Min2(n, d + 4)
    IN  [k \in 1..Max2(0, hi - lo) |->
           [kind |-> "ctx", step |-> lo + k - 1, marker |-> (lo + k - 1 = d),
            our_pc |-> Get(ours[lo + k], "pc", "None"),
            cemu_pc |-> Get(cemu[lo + k], "pc", "None")]]

\* the context rows: range(max(0, d - 3), min(min_len, d + 3))
ContextRows(d, n) ==
    LET lo == Max2(0, d - 3)
        hi == Min2(n, d + 3)
    IN  [k \in 1..Max2(0, hi - lo) |->
           [kind |-> "ctx", step |-> lo + k - 1, marker |-> (lo + k - 1 = d),
            our_pc |-> Get(ours[lo + k], "pc", "None"),
            cemu_pc |-> Get(cemu[lo + k], "pc", "None")]]

\* lines 114-148: the report, and the return when nothing was located
Report ==
    /\ mode = "dense" /\ phase = "report"
    /\ LET ds == DivergenceStep(first_pc_diff, first_reg_diff, first_io_diff)
           lines == ReportLines(first_pc_diff, first_reg_diff, first_io_diff)
       IN  /\ divergence_step' = ds
           /\ IF ds = None
              THEN /\ out' = out \o lines \o
                          <<[kind |-> "none", steps |-> min_len,
                             lengths_differ |-> (Len(ours) # Len(cemu))]>>
                   /\ phase' = "exit"
              ELSE /\ out' = out \o lines
                   /\ phase' = "context"
    /\ UNCHANGED <<mode, ours, cemu, max_steps, check_io_ops, writes_only, ignore_old,
                   i, first_pc_diff, first_reg_diff, first_io_diff, sparse_vars, compared,
                   exit_code>>

\* line 151: the heading printed above the rows names steps
\* max(0, d - 3) to min(min_len - 1, d + 2)
ContextHeader(d, n) ==
    [kind |-> "context", from |-> Max2(0, d - 3), to |-> Min2(n - 1, d + 2)]

\* lines 150-173: the context window
ShowContext ==
    /\ mode = "dense" /\ phase = "context"
    /\ out' = out \o <<ContextHeader(divergence_step[1], min_len)>>
                  \o ContextRows(divergence_step[1], min_len)
    /\ phase' = "exit"
    /\ UNCHANGED <<mode, dense_vars, sparse_vars, compared, exit_code>>

\* compare_traces has returned None and the script ends: exit status 0
DenseExitStatus == 0

DenseExit ==
    /\ mode = "dense" /\ phase = "exit"
    /\ exit_code' = Some(DenseExitStatus)
    /\ phase' = "done"
    /\ UNCHANGED <<mode, dense_vars, sparse_vars, compared, out>>

\* ------------------------------------------------------------------ inputs
BasePc(k) == 3 * k
BaseRegs == [r \in {RegOrder[k] : k \in 1..Len(RegOrder)} |-> "0012"]
ReadOp(v) == [type |-> "read", target |-> "mem", addr |-> "D000", value |-> v]
WriteOp(old, new) == [type |-> "write", target |-> "mem", addr |-> "D001", old |-> old, new |-> new]
BaseOps == <<ReadOp("00"), WriteOp("00", "01")>>
BaseStep(k) == [pc |-> BasePc(k), regs_before |-> BaseRegs, io_ops |-> BaseOps]

WithRegs(S) == [r \in DOMAIN BaseRegs |-> IF r \in S THEN "0013" ELSE "0012"]

Kinds == {"same", "pc", "regs", "rd_drop", "rd_val", "wr_old", "wr_new"}

Variant(k, kind) ==
    LET b == BaseStep(k)
    IN  CASE kind = "same" -> b
          [] kind = "pc" -> [b EXCEPT !.pc = @ + 1]
          [] kind = "regs" -> [b EXCEPT !.regs_before = WithRegs({"BC", "HL"})]
          [] kind = "rd_drop" -> [b EXCEPT !.io_ops = <<WriteOp("00", "01")>>]
          [] kind = "rd_val" -> [b EXCEPT !.io_ops = <<ReadOp("FF"), WriteOp("00", "01")>>]
          [] kind = "wr_old" -> [b EXCEPT !.io_ops = <<ReadOp("00"), WriteOp("80", "01")>>]
          [] kind = "wr_new" -> [b EXCEPT !.io_ops = <<ReadOp("00"), WriteOp("00", "02")>>]

Limits == {None} \cup {Some(n) : n \in 0..MaxLimit}
\* writes_only and ignore_old are read only when check_io_ops is set
Flags == {<<FALSE, FALSE, FALSE>>} \cup {<<TRUE, w, o>> : w \in BOOLEAN, o \in BOOLEAN}

InitDense ==
    /\ mode = "dense" /\ phase = "scan"
    /\ \E lo \in 0..MaxLen, lc \in 0..MaxLen :
         /\ lo - lc \in {-1, 0, 1}
         /\ \E ks \in [1..Min2(lo, lc) -> Kinds] :
              /\ Cardinality({k \in DOMAIN ks : ks[k] # "same"}) <= MaxDiffs
              /\ ours = [k \in 1..lo |-> BaseStep(k - 1)]
              /\ cemu = [k \in 1..lc |-> IF k \in DOMAIN ks THEN Variant(k - 1, ks[k])
                                           ELSE BaseStep(k - 1)]
    /\ max_steps \in Limits
    /\ \E f \in Flags : check_io_ops = f[1] /\ writes_only = f[2] /\ ignore_old = f[3]
    /\ i = 0
    /\ first_pc_diff = None /\ first_reg_diff = None /\ first_io_diff = None
    /\ divergence_step = None
    /\ cemu_snaps = <<>> /\ ours_snaps = <<>>
    /\ cemu_by_cycle = <<>> /\ ours_by_cycle = <<>>
    /\ common_cycles = <<>>
    /\ pos = 0 /\ matches = 0 /\ divergences = <<>>
    /\ compared = <<>>
    /\ out = <<>>
    /\ exit_code = None

NextDense == ScanStep \/ ScanExhausted \/ Report \/ ShowContext \/ DenseExit

\* ------------------------------------------------------------------ sparse
\* "Both should log at the same cycle intervals (every 100K cycles)"
CycleStep == 100000
\* "if len(divergences) < 5": one divergence fewer printed in full
PreviewCount_four == 5 - 1
\* "if len(divergences) <= 5:  # Show first 5 divergences"
PreviewCount == 5

RECURSIVE SortedSeq(_)
\* sorted(S) for a set of integers
SortedSeq(S) == IF S = {} THEN <<>> ELSE <<SetMin(S)>> \o SortedSeq(S \ {SetMin(S)})

\* an index in which the first snapshot of a cycle is never replaced
ByCycle_first(snaps) ==
    [c \in {snaps[k].cycle : k \in DOMAIN snaps} |->
        snaps[CHOOSE k \in DOMAIN snaps :
                /\ snaps[k].cycle = c
                /\ \A j \in DOMAIN snaps : snaps[j].cycle = c => k <= j]]

\* {s['cycle']: s for s in snaps}: a later snapshot replaces an earlier one
ByCycle(snaps) ==
    [c \in {snaps[k].cycle : k \in DOMAIN snaps} |->
        snaps[CHOOSE k \in DOMAIN snaps :
                /\ snaps[k].cycle = c
                /\ \A j \in DOMAIN snaps : snaps[j].cycle = c => j <= k]]

RECURSIVE SortedDesc(_)
SortedDesc(S) == IF S = {} THEN <<>> ELSE SortedDesc(S \ {SetMin(S)}) \o <<SetMin(S)>>
\* the common cycles taken in descending order
CommonCycles_desc(cb, ob) == SortedDesc(DOMAIN cb \cap DOMAIN ob)

\* sorted(set(cemu_by_cycle.keys()) & set(ours_by_cycle.keys()))
CommonCycles(cb, ob) == SortedSeq(DOMAIN cb \cap DOMAIN ob)

\* compare_snapshots: the differences, in the order the code appends them
FieldDiff(name, key, c, o) ==
    IF c[key] # o[key] THEN <<[field |-> name, cemu |-> c[key], ours |-> o[key]]>> ELSE <<>>

\* the interrupt status compared along with the registers
compare_snapshots_intr(c, o) ==
    FieldDiff("PC", "pc", c, o) \o FieldDiff("SP", "sp", c, o)
    \o FieldDiff("AF", "af", c, o) \o FieldDiff("BC", "bc", c, o)
    \o FieldDiff("DE", "de", c, o) \o FieldDiff("HL", "hl", c, o)
    \o FieldDiff("HALT", "halt", c, o) \o FieldDiff("IFF1", "iff1", c, o)
    \o FieldDiff("INTR", "intr_stat", c, o)

\* PC reported only when the first trace is ahead of the second
compare_snapshots_gt(c, o) ==
    (IF c.pc > o.pc THEN <<[field |-> "PC", cemu |-> c.pc, ours |-> o.pc]>> ELSE <<>>)
    \o FieldDiff("SP", "sp", c, o)
    \o FieldDiff("AF", "af", c, o) \o FieldDiff("BC", "bc", c, o)
    \o FieldDiff("DE", "de", c, o) \o FieldDiff("HL", "hl", c, o)
    \o FieldDiff("HALT", "halt", c, o) \o FieldDiff("IFF1", "iff1", c, o)

\* HL of one trace compared with DE of the other
compare_snapshots_hlde(c, o) ==
    FieldDiff("PC", "pc", c, o) \o FieldDiff("SP", "sp", c, o)
    \o FieldDiff("AF", "af", c, o) \o FieldDiff("BC", "bc", c, o)
    \o FieldDiff("DE", "de", c, o)
    \o (IF c.hl # o.de THEN <<[field |-> "HL", cemu |-> c.hl, ours |-> o.de]>> ELSE <<>>)
    \o FieldDiff("HALT", "halt", c, o) \o FieldDiff("IFF1", "iff1", c, o)

compare_snapshots(c, o) ==
    FieldDiff("PC", "pc", c, o) \o FieldDiff("SP", "sp", c, o)
    \o FieldDiff("AF", "af", c, o) \o FieldDiff("BC", "bc", c, o)
    \o FieldDiff("DE", "de", c, o) \o FieldDiff("HL", "hl", c, o)
    \o FieldDiff("HALT", "halt", c, o) \o FieldDiff("IFF1", "iff1", c, o)

\* main as a function of its two inputs: lines 96-117
MainResult(cs, os) ==
    LET cb == ByCycle(cs)
        ob == ByCycle(os)
        common == CommonCycles(cb, ob)
        all == [k \in DOMAIN common |->
                  [cycle |-> common[k],
                   diffs |-> compare_snapshots(cb[common[k]], ob[common[k]]),
                   cemu |-> cb[common[k]], ours |-> ob[common[k]]]]
    IN  [common_cycles |-> common,
         matches |-> Cardinality({k \in DOMAIN all : all[k].diffs = <<>>}),
         divergences |-> SelectSeq(all, LAMBDA d : d.diffs # <<>>)]

\* lines 96-103: the two dictionaries and the common cycles
BuildIndex ==
    /\ mode = "sparse" /\ phase = "index"
    /\ cemu_by_cycle' = ByCycle(cemu_snaps)
    /\ ours_by_cycle' = ByCycle(ours_snaps)
    /\ common_cycles' = CommonCycles(ByCycle(cemu_snaps), ByCycle(ours_snaps))
    /\ out' = out \o <<[kind |-> "comparing",
                        points |-> Len(CommonCycles(ByCycle(cemu_snaps), ByCycle(ours_snaps)))]>>
    /\ phase' = "compare"
    /\ UNCHANGED <<mode, dense_vars, cemu_snaps, ours_snaps, pos, matches, divergences,
                   compared, exit_code>>

\* one iteration of "for cycle in common_cycles"
CompareCycle ==
    /\ mode = "sparse" /\ phase = "compare"
    /\ pos < Len(common_cycles)
    /\ LET cycle == common_cycles[pos + 1]
           c == cemu_by_cycle[cycle]
           o == ours_by_cycle[cycle]
           diffs == compare_snapshots(c, o)
       IN  IF diffs = <<>>
           THEN /\ matches' = matches + 1
                /\ UNCHANGED <<divergences, out>>
           ELSE /\ divergences' = Append(divergences,
                                         [cycle |-> cycle, diffs |-> diffs,
                                          cemu |-> c, ours |-> o])
                /\ out' = IF Len(divergences) + 1 <= PreviewCount
                          THEN Append(out, [kind |-> "divergence", cycle |-> cycle,
                                            diffs |-> diffs])
                          ELSE out
                /\ UNCHANGED matches
    /\ pos' = pos + 1
    /\ compared' = Append(compared, common_cycles[pos + 1])
    /\ UNCHANGED <<mode, phase, dense_vars, cemu_snaps, ours_snaps, cemu_by_cycle,
                   ours_by_cycle, common_cycles, exit_code>>

\* "if len(divergences) >= 0" in place of "if divergences"
MainStatus_ge(divs) == IF Len(divs) >= 0 THEN 1 ELSE 0

\* main's return value, handed to sys.exit
MainStatus(divs) == IF divs # <<>> THEN 1 ELSE 0

\* lines 125-139: the summary and the exit status
Summary ==
    /\ mode = "sparse" /\ phase = "compare"
    /\ pos >= Len(common_cycles)
    /\ out' = out \o
              <<[kind |-> "summary", total |-> Len(common_cycles), matches |-> matches,
                 divergences |-> Len(divergences),
                 first |-> IF divergences # <<>> THEN Some(divergences[1].cycle) ELSE None,
                 last |-> IF divergences # <<>>
                          THEN Some(divergences[Len(divergences)].cycle) ELSE None]>>
    /\ exit_code' = Some(MainStatus(divergences))
    /\ phase' = "done"
    /\ UNCHANGED <<mode, dense_vars, sparse_vars, compared>>

\* ------------------------------------------------------------------ inputs
BaseSnap(c, ln) ==
    [cycle |-> c, pc |-> 16 + (c \div CycleStep), sp |-> 208, af |-> 66, bc |-> 1,
     de |-> 2, hl |-> 3, intr_stat |-> 0, intr_en |-> 1, halt |-> FALSE, iff1 |-> TRUE,
     pwr |-> 0, spd |-> 3, line |-> ln]

SnapKinds == {"same", "pc", "sp_hl_halt", "intr"}

SnapVariant(c, ln, kind) ==
    LET b == BaseSnap(c, ln)
    IN  CASE kind = "same" -> b
          [] kind = "pc" -> [b EXCEPT !.pc = @ + 1]
          [] kind = "sp_hl_halt" -> [b EXCEPT !.sp = @ + 1, !.hl = @ + 1, !.halt = TRUE]
          [] kind = "intr" -> [b EXCEPT !.intr_stat = 17, !.spd = 1]

\* the first n cycle values a trace can log
Cycles(n) == {k * CycleStep : k \in 0..(n - 1)}

\* the snapshots of a trace that logs the cycles of S, in ascending order
SnapsOf(S, ks) ==
    LET cs == SortedSeq(S)
    IN  [k \in 1..Len(cs) |-> IF cs[k] \in DOMAIN ks THEN SnapVariant(cs[k], k, ks[cs[k]])
                                ELSE BaseSnap(cs[k], k)]

InitSparse ==
    /\ mode = "sparse" /\ phase = "index"
    /\ \E n \in 0..(MaxCycle + 1) :
         \E A \in SUBSET Cycles(n), B \in SUBSET Cycles(n) :
            \E ks \in [A \cap B -> SnapKinds] :
               \* every cycle value up to the last one is logged by some trace
               /\ A \cup B = Cycles(n)
               /\ Cardinality({c \in DOMAIN ks : ks[c] # "same"}) <= MaxDiffs
               /\ cemu_snaps = SnapsOf(A, <<>>)
               /\ ours_snaps = SnapsOf(B, ks)
    /\ cemu_by_cycle = <<>> /\ ours_by_cycle = <<>>
    /\ common_cycles = <<>>
    /\ pos = 0 /\ matches = 0 /\ divergences = <<>>
    /\ ours = <<>> /\ cemu = <<>>
    /\ max_steps = None
    /\ check_io_ops = FALSE /\ writes_only = FALSE /\ ignore_old = FALSE
    /\ i = 0
    /\ first_pc_diff = None /\ first_reg_diff = None /\ first_io_diff = None
    /\ divergence_step = None
    /\ compared = <<>>
    /\ out = <<>>
    /\ exit_code = None

NextSparse == BuildIndex \/ CompareCycle \/ Summary

\* ------------------------------------------------------------------ the system
Init == InitDense \/ InitSparse
Next == NextDense \/ NextSparse
Spec == Init /\ [][Next]_vars

\* ------------------------------------------------------------------ properties
Done == phase = "done"
DenseDone == mode = "dense" /\ phase = "done"
SparseDone == mode = "sparse" /\ phase = "done"

\* dense: the positions (Python indices) inside the compared range
Aligned == 0..(min_len - 1)
\* sparse: the cycle values logged by a trace
CyclesOf(snaps) == {snaps[k].cycle : k \in DOMAIN snaps}
AlignedCycles == CyclesOf(cemu_snaps) \cap CyclesOf(ours_snaps)

HasLine(r) == \E k \in DOMAIN out : out[k] = r
LinesOfKind(kind) == {k \in DOMAIN out : out[k].kind = kind}
StrictlyAscending(seq) == \A a, b \in DOMAIN seq : a < b => seq[a] < seq[b]
Elements(seq) == {seq[k] : k \in DOMAIN seq}

\* dense: the run ended in the "No divergence found" branch
NoDivergenceOutcome ==
    /\ first_pc_diff = None /\ first_reg_diff = None /\ first_io_diff = None
    /\ divergence_step = None
    /\ out # <<>> /\ out[Len(out)].kind = "none" /\ out[Len(out)].steps = min_len

\* dense: the two traces differ in the pc of aligned step p and in nothing else aligned
DenseOnlyPcAt(p) ==
    /\ p \in Aligned
    /\ ours[p + 1].pc # cemu[p + 1].pc
    /\ ours[p + 1].regs_before = cemu[p + 1].regs_before
    /\ ours[p + 1].io_ops = cemu[p + 1].io_ops
    /\ \A q \in Aligned \ {p} : ours[q + 1] = cemu[q + 1]

\* sparse: the snapshots of two traces are equal but for the listed fields
SameBut(a, b, fields) ==
    \A f \in (DOMAIN a) \ (fields \cup {"line"}) : a[f] = b[f]

\* sparse: the two traces differ in the pc of aligned cycle p and in nothing else aligned
SparseOnlyPcAt(p) ==
    /\ p \in AlignedCycles
    /\ cemu_by_cycle[p].pc # ours_by_cycle[p].pc
    /\ SameBut(cemu_by_cycle[p], ours_by_cycle[p], {"pc"})
    /\ \A q \in AlignedCycles \ {p} : SameBut(cemu_by_cycle[q], ours_by_cycle[q], {})

\* C1: two traces that differ only in the PC of one aligned point p, wherever p
\* lies, end with p as the first and only divergence, classified as a PC
\* divergence: dense, divergence_step = p and a PC difference is printed for step
\* p; sparse, the divergence list is exactly [p] with the one difference PC.
C1_PcOnlyLocated ==
    /\ DenseDone =>
         \A p \in Aligned :
            DenseOnlyPcAt(p) =>
               /\ divergence_step = Some(p)
               /\ HasLine([kind |-> "pc", step |-> p])
               /\ LinesOfKind("reg") = {} /\ LinesOfKind("io") = {}
    /\ SparseDone =>
         \A p \in AlignedCycles :
            SparseOnlyPcAt(p) =>
               /\ Len(divergences) = 1
               /\ divergences[1].cycle = p
               /\ divergences[1].diffs =
                     <<[field |-> "PC", cemu |-> cemu_by_cycle[p].pc,
                        ours |-> ours_by_cycle[p].pc]>>

\* C2: identical traces give no divergence and as many matches as there are
\* aligned points: sparse, matches = len(common_cycles) = the number of cycles
\* logged and the divergence list is empty; dense, every one of the min_len steps
\* is compared, nothing is recorded and the run ends in "No divergence found".
C2_IdenticalTracesMatch ==
    /\ (SparseDone /\ cemu_snaps = ours_snaps) =>
         /\ matches = Len(common_cycles)
         /\ matches = Cardinality(CyclesOf(cemu_snaps))
         /\ divergences = <<>>
         /\ HasLine([kind |-> "summary", total |-> matches, matches |-> matches,
                     divergences |-> 0, first |-> None, last |-> None])
    /\ (DenseDone /\ ours = cemu) =>
         /\ NoDivergenceOutcome
         /\ compared = [k \in 1..min_len |-> k - 1]
         /\ LinesOfKind("pc") = {} /\ LinesOfKind("reg") = {} /\ LinesOfKind("io") = {}

C2_Witness ==
    SparseDone /\ cemu_snaps = ours_snaps /\ matches = 3 /\ Len(compared) = 3

\* C3: in sparse mode the cycles compared are exactly the cycles logged by both
\* traces, each once, in strictly ascending order; the traces {0, 100000, 200000,
\* 300000} and {100000, 200000, 400000} are compared at [100000, 200000].
C3_OrderedIntersection ==
    mode = "sparse" =>
       /\ StrictlyAscending(compared)
       /\ Elements(compared) \subseteq AlignedCycles
       /\ phase # "index" =>
            /\ StrictlyAscending(common_cycles)
            /\ Elements(common_cycles) = AlignedCycles
       /\ phase = "done" =>
            /\ Elements(compared) = AlignedCycles
            /\ Len(compared) = Cardinality(AlignedCycles)
            /\ (/\ CyclesOf(cemu_snaps) = {0, 100000, 200000, 300000}
                /\ CyclesOf(ours_snaps) = {100000, 200000, 400000})
               => compared = <<100000, 200000>>

C3_Witness ==
    /\ SparseDone
    /\ CyclesOf(cemu_snaps) = {0, 100000, 200000, 300000}
    /\ CyclesOf(ours_snaps) = {100000, 200000, 400000}
    /\ compared = <<100000, 200000>>

\* C4: the exit status is the success value exactly when every compared point
\* matched and a different value exactly when a divergence was found, in the
\* sparse comparator and in the dense one.
C4_ExitStatusIsVerdict ==
    /\ SparseDone => (exit_code = Some(0) <=> divergences = <<>>)
    /\ DenseDone =>
         (exit_code = Some(0) <=>
            (first_pc_diff = None /\ first_reg_diff = None /\ first_io_diff = None))
\* the write operations of a list, in order
ClaimWrites(ops) == SelectSeq(ops, LAMBDA op : op.type = "write")
\* a list of operations with the old value of every write blanked out
BlankOld(ops) ==
    [k \in DOMAIN ops |-> IF ops[k].type = "write" THEN [ops[k] EXCEPT !.old = "-"]
                          ELSE ops[k]]
\* a list of operations with the new value of every write blanked out
BlankNew(ops) ==
    [k \in DOMAIN ops |-> IF ops[k].type = "write" THEN [ops[k] EXCEPT !.new = "-"]
                          ELSE ops[k]]
SamePcAndRegs(k) ==
    /\ ours[k + 1].pc = cemu[k + 1].pc
    /\ ours[k + 1].regs_before = cemu[k + 1].regs_before
\* the aligned steps whose io_ops lists are not equal
IoDiffSteps == {k \in Aligned : ours[k + 1].io_ops # cemu[k + 1].io_ops}
\* the list compare_io_ops walks for the step's operations
Walked(ops) == IF writes_only THEN ClaimWrites(ops) ELSE ops
FirstOpIndex(a, b) == SetMin({k \in DOMAIN a : a[k] # b[k]})

\* the aligned steps differ in read operations only, and do differ
DenseOnlyReads ==
    /\ \A k \in Aligned :
          SamePcAndRegs(k) /\ ClaimWrites(ours[k + 1].io_ops) = ClaimWrites(cemu[k + 1].io_ops)
    /\ IoDiffSteps # {}

\* the aligned steps differ in the old value of writes only, and do differ
DenseOnlyOld ==
    /\ \A k \in Aligned :
          SamePcAndRegs(k) /\ BlankOld(ours[k + 1].io_ops) = BlankOld(cemu[k + 1].io_ops)
    /\ IoDiffSteps # {}

\* the aligned steps differ in the new value of writes only, and do differ
DenseOnlyNew ==
    /\ \A k \in Aligned :
          SamePcAndRegs(k) /\ BlankNew(ours[k + 1].io_ops) = BlankNew(cemu[k + 1].io_ops)
    /\ IoDiffSteps # {}

\* an I/O divergence, and no other, was located at step s and printed
IoDivergenceAt(s) ==
    /\ first_io_diff # None /\ first_io_diff[1].step = s
    /\ first_pc_diff = None /\ first_reg_diff = None
    /\ divergence_step = Some(s)
    /\ HasLine([kind |-> "io", step |-> s, desc |-> first_io_diff[1].desc])

\* C5: traces that differ only in read operations compare without divergence
\* under writes_only, and with an I/O divergence (at the first step whose
\* operations differ) when I/O comparison is on and writes_only is off.
C5_WritesOnlyHidesReads ==
    (DenseDone /\ DenseOnlyReads) =>
       /\ writes_only => NoDivergenceOutcome
       /\ (check_io_ops /\ ~writes_only) => IoDivergenceAt(SetMin(IoDiffSteps))

C5_Witness ==
    /\ DenseDone /\ DenseOnlyReads /\ writes_only /\ check_io_ops
    /\ Cardinality(IoDiffSteps) = 2
    /\ NoDivergenceOutcome /\ Len(compared) = 3

\* C6: traces that differ only in the old value of writes compare without
\* divergence under ignore_old, and without it give an I/O divergence that names
\* the old field of the first differing operation; a difference in the new value
\* of a write is an I/O divergence naming new under both settings.
C6_IgnoreOldHidesOld ==
    /\ (DenseDone /\ check_io_ops /\ DenseOnlyOld) =>
          LET s == SetMin(IoDiffSteps)
              o == Walked(ours[s + 1].io_ops)
              c == Walked(cemu[s + 1].io_ops)
              j == FirstOpIndex(o, c)
          IN  /\ ignore_old => NoDivergenceOutcome
              /\ ~ignore_old =>
                    /\ IoDivergenceAt(s)
                    /\ first_io_diff[1].desc =
                          [kind |-> "old", idx |-> j - 1, ours |-> o[j].old, cemu |-> c[j].old]
    /\ (DenseDone /\ check_io_ops /\ DenseOnlyNew) =>
          LET s == SetMin(IoDiffSteps)
              o == Walked(ours[s + 1].io_ops)
              c == Walked(cemu[s + 1].io_ops)
              j == FirstOpIndex(o, c)
          IN  /\ IoDivergenceAt(s)
              /\ first_io_diff[1].desc =
                    [kind |-> "new", idx |-> j - 1, ours |-> o[j].new, cemu |-> c[j].new]

C6_Witness ==
    /\ DenseDone /\ check_io_ops /\ DenseOnlyOld /\ ignore_old
    /\ Cardinality(IoDiffSteps) = 2
    /\ NoDivergenceOutcome /\ Len(compared) = 3

\* the differences of a divergence with the two value columns exchanged
SwapSides(diffs) ==
    [k \in DOMAIN diffs |->
        [field |-> diffs[k].field, cemu |-> diffs[k].ours, ours |-> diffs[k].cemu]]

\* C7: the sparse comparison of (B, A) has the aligned cycles, the match count
\* and the divergence count of the comparison of (A, B), and at every divergent
\* cycle the same differing fields with the two values exchanged.
C7_SparseSymmetric ==
    SparseDone =>
       LET fwd == MainResult(cemu_snaps, ours_snaps)
           rev == MainResult(ours_snaps, cemu_snaps)
       IN  /\ fwd.common_cycles = common_cycles
           /\ fwd.matches = matches
           /\ fwd.divergences = divergences
           /\ rev.common_cycles = common_cycles
           /\ rev.matches = matches
           /\ Len(rev.divergences) = Len(divergences)
           /\ \A k \in DOMAIN divergences :
                 /\ rev.divergences[k].cycle = divergences[k].cycle
                 /\ rev.divergences[k].diffs = SwapSides(divergences[k].diffs)
                 /\ rev.divergences[k].cemu = divergences[k].ours
                 /\ rev.divergences[k].ours = divergences[k].cemu

C7_Witness ==
    /\ SparseDone /\ Len(divergences) = 2 /\ matches = 1
    /\ Len(divergences[1].diffs) = 3 /\ Len(divergences[2].diffs) = 1
    /\ CyclesOf(cemu_snaps) # CyclesOf(ours_snaps)

\* the order in which the registers of a step are compared
ClaimRegOrder == <<"A", "F", "BC", "DE", "HL", "IX", "IY", "SP">>
RegsDifferAt(k) ==
    {n \in DOMAIN ClaimRegOrder :
        ours[k + 1].regs_before[ClaimRegOrder[n]] # cemu[k + 1].regs_before[ClaimRegOrder[n]]}

\* C8: when all steps before aligned step k match and registers differ at k, the
\* register divergence recorded is (k, r, ours value, cemu value) for the first
\* differing register r in the order A, F, BC, DE, HL, IX, IY, SP, and no other
\* register of the step is recorded.
C8_FirstRegisterOfStep ==
    DenseDone =>
       \A k \in Aligned :
          (/\ \A j \in 0..(k - 1) : ours[j + 1] = cemu[j + 1]
           /\ RegsDifferAt(k) # {}) =>
             LET r == ClaimRegOrder[SetMin(RegsDifferAt(k))]
                 rec == [step |-> k, reg |-> r, ours |-> ours[k + 1].regs_before[r],
                         cemu |-> cemu[k + 1].regs_before[r]]
             IN  /\ first_reg_diff = Some(rec)
                 /\ {out[n] : n \in LinesOfKind("reg")} = {[kind |-> "reg"] @@ rec}

C8_Witness ==
    /\ DenseDone
    /\ first_reg_diff = Some([step |-> 2, reg |-> "BC", ours |-> "0012", cemu |-> "0013"])
    /\ Cardinality(RegsDifferAt(2)) = 2
    /\ \A j \in 0..1 : ours[j + 1] = cemu[j + 1]

\* the first aligned step at which the PCs differ, the registers differ
FirstPcStep == SetMin({k \in Aligned : ours[k + 1].pc # cemu[k + 1].pc})
FirstRegStep == SetMin({k \in Aligned : RegsDifferAt(k) # {}})

\* C9: the three kinds are tracked independently: the scan ends only when all
\* three have been located or the range is exhausted, so a PC divergence first
\* at step p and a register divergence first at a later aligned step q are both
\* located, and the overall first divergence is p.
C9_KindsTrackedIndependently ==
    DenseDone =>
       /\ \/ (first_pc_diff # None /\ first_reg_diff # None /\ first_io_diff # None)
          \/ Len(compared) = min_len
       /\ (/\ \E k \in Aligned : ours[k + 1].pc # cemu[k + 1].pc
           /\ \E k \in Aligned : RegsDifferAt(k) # {}) =>
             (FirstPcStep < FirstRegStep =>
                /\ first_pc_diff = Some(FirstPcStep)
                /\ first_reg_diff # None /\ first_reg_diff[1].step = FirstRegStep
                /\ divergence_step = Some(FirstPcStep))

\* the comparison set is empty
EmptyComparison ==
    \/ mode = "sparse" /\ AlignedCycles = {}
    \/ mode = "dense" /\ (Len(ours) = 0 \/ Len(cemu) = 0)

\* C10: with an empty comparison set nothing is compared, no match and no
\* divergence is counted or printed, and the run goes on to its normal end:
\* the sparse summary shows 0 points, 0 matches, 0 divergences, the dense run
\* prints "No divergence found in 0 steps", and the exit status is 0.
C10_EmptyComparisonSet ==
    EmptyComparison =>
       /\ compared = <<>>
       /\ matches = 0 /\ divergences = <<>>
       /\ first_pc_diff = None /\ first_reg_diff = None /\ first_io_diff = None
       /\ divergence_step = None
       /\ \A k \in DOMAIN out : out[k].kind \in {"comparing", "summary", "none"}
       /\ phase = "done" \/ ENABLED Next
       /\ SparseDone =>
             /\ exit_code = Some(0)
             /\ HasLine([kind |-> "summary", total |-> 0, matches |-> 0,
                         divergences |-> 0, first |-> None, last |-> None])
       /\ DenseDone =>
             /\ exit_code = Some(0)
             /\ \E b \in BOOLEAN : out = <<[kind |-> "none", steps |-> 0, lengths_differ |-> b]>>

C10_Witness ==
    /\ SparseDone /\ AlignedCycles = {}
    /\ Len(cemu_snaps) = 2 /\ Len(ours_snaps) = 3
    /\ exit_code = Some(0)

\* ------------------------------------------------------------------ C11
\* the number of positions the claim lets a dense run look at
ClaimRange ==
    IF max_steps = None THEN Min2(Len(ours), Len(cemu))
    ELSE Min2(Min2(Len(ours), Len(cemu)), max_steps[1])

\* the steps named by the report lines and the context rows
ReportedSteps ==
    {out[k].step : k \in {j \in DOMAIN out : out[j].kind \in {"reg", "io", "pc", "ctx"}}}

\* C11: a dense run given the step limit L looks at exactly the first
\* min(len(ours), len(cemu), L) positions, for every L: no step at index >= L
\* is compared or reported, a run that locates nothing has compared every one
\* of those positions and says so, and without a limit the range is
\* min(len(ours), len(cemu)).
C11_LimitBoundsRange ==
    mode = "dense" =>
        /\ \A k \in DOMAIN compared : compared[k] < ClaimRange
        /\ \A s \in ReportedSteps : s < ClaimRange
        /\ (DenseDone /\ divergence_step = None) =>
              /\ Elements(compared) = 0..(ClaimRange - 1)
              /\ HasLine([kind |-> "none", steps |-> ClaimRange,
                          lengths_differ |-> Len(ours) # Len(cemu)])

\* ------------------------------------------------------------------ C12
\* the state of compare_traces and of the sparse half before the first iteration
DenseStart ==
    /\ mode = "dense" /\ phase = "scan"
    /\ i = 0
    /\ first_pc_diff = None /\ first_reg_diff = None /\ first_io_diff = None
    /\ divergence_step = None
    /\ cemu_snaps = <<>> /\ ours_snaps = <<>>
    /\ cemu_by_cycle = <<>> /\ ours_by_cycle = <<>>
    /\ common_cycles = <<>>
    /\ pos = 0 /\ matches = 0 /\ divergences = <<>>
    /\ compared = <<>>
    /\ out = <<>>
    /\ exit_code = None

\* longest trace of the context-window runs
MaxCtxLen == 7

\* two traces of equal length that differ in at most one step (its pc or its
\* registers), with or without a step limit
InitContext ==
    /\ DenseStart
    /\ \E n \in 0..MaxCtxLen :
         /\ ours = [k \in 1..n |-> BaseStep(k - 1)]
         /\ \/ cemu = ours
            \/ \E d \in 1..n, kind \in {"pc", "regs"} :
                  cemu = [k \in 1..n |-> IF k = d THEN Variant(k - 1, kind)
                                          ELSE BaseStep(k - 1)]
         /\ max_steps \in {None} \cup {Some(l) : l \in 0..n}
    /\ check_io_ops = FALSE /\ writes_only = FALSE /\ ignore_old = FALSE

SpecContext == InitContext /\ [][NextDense]_vars

\* the rows printed under the context heading, in print order
CtxRows == [k \in 1..Cardinality(LinesOfKind("ctx")) |->
              out[SetMin(LinesOfKind("ctx")) + k - 1]]
CtxSteps == {out[k].step : k \in LinesOfKind("ctx")}
ContextShown == mode = "dense" /\ phase \in {"exit", "done"} /\ divergence_step # None

\* C12 as stated: the window covers d-3 .. d+3 clipped to [0, min_len-1],
\* contains d, and d is the only marked row.
C12_WindowThreeAfter ==
    ContextShown =>
        LET d == divergence_step[1]
        IN  /\ CtxSteps = {j \in (d - 3)..(d + 3) : 0 <= j /\ j <= min_len - 1}
            /\ d \in CtxSteps
            /\ \A k \in LinesOfKind("ctx") : out[k].marker <=> (out[k].step = d)

\* C12 (amended): for a dense divergence located at step d the context window
\* is the rows d-3 .. d+2 (3 records before, 2 after) clipped to the compared
\* range [0, min_len-1], one row per step in ascending order, each showing the
\* two PCs of its step; it contains d; d is the only marked row; the heading
\* names the first and the last row.
C12_WindowTwoAfter ==
    ContextShown =>
        LET d == divergence_step[1]
            rows == CtxRows
        IN  /\ CtxSteps = {j \in (d - 3)..(d + 2) : 0 <= j /\ j <= min_len - 1}
            /\ Len(rows) = Cardinality(CtxSteps)
            /\ \A k \in DOMAIN rows :
                  /\ rows[k].kind = "ctx"
                  /\ rows[k].step = Max2(0, d - 3) + k - 1
                  /\ rows[k].our_pc = ours[rows[k].step + 1].pc
                  /\ rows[k].cemu_pc = cemu[rows[k].step + 1].pc
                  /\ rows[k].marker <=> (rows[k].step = d)
            /\ d \in CtxSteps
            /\ Cardinality({k \in DOMAIN rows : rows[k].marker}) = 1
            /\ HasLine([kind |-> "context", from |-> rows[1].step,
                        to |-> rows[Len(rows)].step])

\* a window cut by neither end of the range: d = 4 of 7 steps, rows 1 .. 6
C12_Witness ==
    /\ ContextShown /\ phase = "done"
    /\ divergence_step = Some(4) /\ min_len = 7
    /\ CtxSteps = 1..6

\* ------------------------------------------------------------------ C13
\* the state of main and of the dense half before the index is built
SparseStart ==
    /\ mode = "sparse" /\ phase = "index"
    /\ cemu_by_cycle = <<>> /\ ours_by_cycle = <<>>
    /\ common_cycles = <<>>
    /\ pos = 0 /\ matches = 0 /\ divergences = <<>>
    /\ ours = <<>> /\ cemu = <<>>
    /\ max_steps = None
    /\ check_io_ops = FALSE /\ writes_only = FALSE /\ ignore_old = FALSE
    /\ i = 0
    /\ first_pc_diff = None /\ first_reg_diff = None /\ first_io_diff = None
    /\ divergence_step = None
    /\ compared = <<>>
    /\ out = <<>>
    /\ exit_code = None

\* longest run of the many-divergence traces
MaxRun == 7

\* both traces log the same n cycles; any of our snapshots may differ in pc;
\* our file lists them in ascending or in descending cycle order
InitPreview ==
    /\ SparseStart
    /\ \E n \in 0..MaxRun :
         \E ks \in [1..n -> {"same", "pc"}], rev \in BOOLEAN :
            /\ cemu_snaps = [k \in 1..n |-> BaseSnap((k - 1) * CycleStep, k)]
            /\ ours_snaps = [k \in 1..n |->
                               LET c == IF rev THEN n - k ELSE k - 1
                               IN  SnapVariant(c * CycleStep, k, ks[c + 1])]

SpecPreview == InitPreview /\ [][NextSparse]_vars

\* the fields the sparse comparison is specified to compare
ClaimFields == {"pc", "sp", "af", "bc", "de", "hl", "halt", "iff1"}
\* the processed cycles at which the two indexed snapshots disagree
DivergentCycles ==
    {c \in Elements(compared) :
        \E f \in ClaimFields : cemu_by_cycle[c][f] # ours_by_cycle[c][f]}
SetMax(S) == CHOOSE x \in S : \A y \in S : y <= x
\* the cycles of the divergences printed in full, in print order
DetailCycles ==
    LET ks == LinesOfKind("divergence")
    IN  [k \in 1..Cardinality(ks) |->
           out[CHOOSE j \in ks : Cardinality({l \in ks : l <= j}) = k].cycle]

\* C13: in the sparse scan, after every processed cycle matches +
\* len(divergences) is the number of cycles processed, so at the end it is the
\* total of common points; every divergent cycle is counted, in scan order,
\* and exactly the first five of them are printed in full; the summary gives
\* the totals and the smallest and the largest divergent cycle as first and
\* last divergence.
C13_CountsAndPreview ==
    (mode = "sparse" /\ phase \in {"compare", "done"}) =>
        /\ pos = Len(compared)
        /\ matches + Len(divergences) = pos
        /\ Len(divergences) = Cardinality(DivergentCycles)
        /\ {divergences[k].cycle : k \in DOMAIN divergences} = DivergentCycles
        /\ Len(DetailCycles) = Min2(5, Len(divergences))
        /\ \A k \in DOMAIN DetailCycles : DetailCycles[k] = divergences[k].cycle
        /\ phase = "done" =>
              /\ pos = Len(common_cycles)
              /\ HasLine([kind |-> "summary", total |-> Len(common_cycles),
                          matches |-> Len(common_cycles) - Cardinality(DivergentCycles),
                          divergences |-> Cardinality(DivergentCycles),
                          first |-> IF DivergentCycles = {} THEN None
                                    ELSE Some(SetMin(DivergentCycles)),
                          last |-> IF DivergentCycles = {} THEN None
                                   ELSE Some(SetMax(DivergentCycles))])

\* seven common points, six of them divergent, five printed in full
C13_Witness ==
    /\ SparseDone
    /\ Len(common_cycles) = 7 /\ matches = 1 /\ Len(divergences) = 6
    /\ Len(DetailCycles) = 5
    /\ ours_snaps[1].cycle > ours_snaps[2].cycle

\* ------------------------------------------------------------------ C14
\* most operations of one step
MaxOps == 2

\* one operation with each of its fields free
AnyRead(t, a, v) == [type |-> "read", target |-> t, addr |-> a, value |-> v]
AnyWrite(t, a, old, new) ==
    [type |-> "write", target |-> t, addr |-> a, old |-> old, new |-> new]
\* the operations that differ from ReadOp("00") or from WriteOp("00", "01") in at
\* most two fields
OpUniverse ==
    {op \in {AnyRead(t, a, v) : t \in {"mem", "port"}, a \in {"D000", "D001"},
                                v \in {"00", "FF"}} :
        Cardinality({f \in DOMAIN op : op[f] # ReadOp("00")[f]}) <= 2}
    \cup
    {op \in UNION {{AnyWrite(t, a, old, new) : t \in {"mem", "port"}, a \in {"D000", "D001"}} :
                      old \in {"00", "80"}, new \in {"01", "02"}} :
        Cardinality({f \in DOMAIN op : op[f] # WriteOp("00", "01")[f]}) <= 2}
\* our operations: read, write, read, ...
OpPattern(n) == [k \in 1..n |-> IF k % 2 = 1 THEN ReadOp("00") ELSE WriteOp("00", "01")]
SeqsUpTo(S, n) == UNION {[1..m -> S] : m \in 0..n}

\* two one-step traces equal in pc and registers; the I/O lists are free
InitIoOps ==
    /\ DenseStart
    /\ \E n \in 0..MaxOps, c \in SeqsUpTo(OpUniverse, MaxOps) :
         /\ ours = <<[BaseStep(0) EXCEPT !.io_ops = OpPattern(n)]>>
         /\ cemu = <<[BaseStep(0) EXCEPT !.io_ops = c]>>
    /\ max_steps = None
    /\ check_io_ops = TRUE
    /\ writes_only \in BOOLEAN /\ ignore_old \in BOOLEAN

SpecIoOps == InitIoOps /\ [][NextDense]_vars

\* the fields the claim has compared at a position, in the claimed order
ClaimOpFields(op) ==
    <<"type", "target", "addr">> \o
    (IF op.type = "write" THEN (IF ignore_old THEN <<"new">> ELSE <<"old", "new">>)
     ELSE <<"value">>)
FieldOf(op, f) == IF f \in DOMAIN op THEN op[f] ELSE "None"
\* the first field of the claimed order in which two operations differ, 0 if none
FirstFieldDiff(a, b) ==
    LET fs == ClaimOpFields(a)
        bad == {k \in DOMAIN fs : FieldOf(a, fs[k]) # FieldOf(b, fs[k])}
    IN  IF bad = {} THEN 0 ELSE SetMin(bad)
\* what the claim has compare_io_ops answer for the two walked lists
ClaimIoAnswer(a, b) ==
    IF Len(a) # Len(b) THEN Some([kind |-> "count", ours |-> Len(a), cemu |-> Len(b)])
    ELSE LET bad == {k \in DOMAIN a : FirstFieldDiff(a[k], b[k]) # 0}
         IN  IF bad = {} THEN None
             ELSE LET k == SetMin(bad)
                      f == ClaimOpFields(a[k])[FirstFieldDiff(a[k], b[k])]
                  IN  Some([kind |-> f, idx |-> k - 1,
                            ours |-> FieldOf(a[k], f), cemu |-> FieldOf(b[k], f)])
StepZeroCompared == mode = "dense" /\ check_io_ops /\ compared # <<>> /\ Len(ours) = 1

\* C14: compare_io_ops, applied to the operations of a step after the
\* writes-only filter, answers a count mismatch (and no per-operation
\* difference) when the lists differ in length; otherwise the first position
\* that differs in a compared field, described by the first differing field in
\* the order type, target, address, value(s); and a match only when every
\* position agrees on all compared fields.
C14_IoOpsOrder ==
    StepZeroCompared =>
        LET a == Walked(ours[1].io_ops)
            b == Walked(cemu[1].io_ops)
            ans == ClaimIoAnswer(a, b)
        IN  /\ compare_io_ops(ours[1].io_ops, cemu[1].io_ops, writes_only, ignore_old)
                 = [match |-> ans = None, desc |-> ans]
            /\ IF ans = None THEN first_io_diff = None
               ELSE first_io_diff # None /\ first_io_diff[1].step = 0
                    /\ first_io_diff[1].desc = ans[1]
            /\ (DenseDone /\ ans # None) => IoDivergenceAt(0)
            /\ (DenseDone /\ ans = None) => NoDivergenceOutcome

\* equal counts; the first operations agree; the second differ in target and in
\* the new value: the answer is op[1] target
C14_Witness ==
    /\ StepZeroCompared /\ DenseDone /\ ~writes_only
    /\ Len(ours[1].io_ops) = 2 /\ Len(cemu[1].io_ops) = 2
    /\ ours[1].io_ops[1] = cemu[1].io_ops[1]
    /\ cemu[1].io_ops[2] = AnyWrite("port", "D001", "00", "02")
    /\ first_io_diff # None
    /\ first_io_diff[1].desc = [kind |-> "target", idx |-> 1, ours |-> "mem", cemu |-> "port"]

\* different counts and a first operation of another type: count mismatch only
C14_CountWitness ==
    /\ StepZeroCompared /\ DenseDone /\ ~writes_only
    /\ Len(ours[1].io_ops) = 2 /\ Len(cemu[1].io_ops) = 1
    /\ cemu[1].io_ops[1].type = "write"
    /\ first_io_diff # None
    /\ first_io_diff[1].desc = [kind |-> "count", ours |-> 2, cemu |-> 1]

\* ------------------------------------------------------------------ C15
\* the fields of a parsed snapshot besides its cycle and its line
SnapFields == {"pc", "sp", "af", "bc", "de", "hl", "intr_stat", "intr_en", "halt", "iff1",
               "pwr", "spd"}
\* another value of the field's type
OtherValue(f, v) == IF f \in {"halt", "iff1"} THEN ~v ELSE v + 1

\* one common cycle; our snapshot differs from the other in any set of fields
InitFields ==
    /\ SparseStart
    /\ \E D \in SUBSET SnapFields :
         /\ cemu_snaps = <<BaseSnap(CycleStep, 1)>>
         /\ ours_snaps = <<[f \in DOMAIN BaseSnap(CycleStep, 1) |->
                              IF f \in D THEN OtherValue(f, BaseSnap(CycleStep, 1)[f])
                              ELSE BaseSnap(CycleStep, 1)[f]]>>

SpecFields == InitFields /\ [][NextSparse]_vars

\* the interrupt/control bytes, and the names the report gives the other fields
IgnoredFields == {"intr_stat", "intr_en", "pwr", "spd"}
ReportName == [pc |-> "PC", sp |-> "SP", af |-> "AF", bc |-> "BC", de |-> "DE", hl |-> "HL",
               halt |-> "HALT", iff1 |-> "IFF1"]
\* a snapshot with its interrupt/control bytes replaced
WithIgnored(snap, v) == [f \in DOMAIN snap |-> IF f \in IgnoredFields THEN v[f] ELSE snap[f]]
CycleCompared == mode = "sparse" /\ pos = 1 /\ Len(common_cycles) = 1

\* C15: the outcome of the sparse comparison does not depend on intr_stat,
\* intr_en, pwr and spd: replacing them by any values in either snapshot of a
\* compared pair leaves the difference list of compare_snapshots unchanged; a
\* pair that agrees on pc, sp, af, bc, de, hl, halt and iff1 is a match (zero
\* divergences, exit status 0) whatever else differs; a pair that differs in
\* any of those eight is a divergence whose difference list is non-empty and
\* names exactly the differing fields.
C15_ControlBytesIgnored ==
    CycleCompared =>
        LET cy == common_cycles[1]
            c == cemu_by_cycle[cy]
            o == ours_by_cycle[cy]
            differing == {f \in ClaimFields : c[f] # o[f]}
        IN  /\ \A v \in [IgnoredFields -> {0, 17}], w \in [IgnoredFields -> {0, 17}] :
                  compare_snapshots(WithIgnored(c, v), WithIgnored(o, w))
                     = compare_snapshots(c, o)
            /\ differing = {} => (matches = 1 /\ divergences = <<>>)
            /\ differing # {} =>
                  /\ matches = 0 /\ Len(divergences) = 1
                  /\ divergences[1].diffs # <<>>
                  /\ {divergences[1].diffs[k].field : k \in DOMAIN divergences[1].diffs}
                       = {ReportName[f] : f \in differing}
            /\ SparseDone => exit_code = Some(IF differing = {} THEN 0 ELSE 1)

\* the two traces differ in all four interrupt/control bytes and in nothing else
C15_Witness ==
    /\ CycleCompared /\ SparseDone
    /\ \A f \in IgnoredFields : cemu_snaps[1][f] # ours_snaps[1][f]
    /\ \A f \in ClaimFields : cemu_snaps[1][f] = ours_snaps[1][f]
    /\ matches = 1 /\ divergences = <<>> /\ exit_code = Some(0)

\* ------------------------------------------------------------------ C16
\* most snapshots of the trace that repeats cycle values
MaxSnaps == 3

\* one trace lists up to MaxSnaps snapshots of two cycle values in any order,
\* any of them changed; the other lists each of its cycles once; either trace
\* can be the one that repeats
InitDup ==
    /\ SparseStart
    /\ \E n \in 0..MaxSnaps, A \in SUBSET Cycles(2), swap \in BOOLEAN :
         \E cs \in [1..n -> Cycles(2)], ks \in [1..n -> {"same", "pc", "sp_hl_halt"}] :
            LET dup == [k \in 1..n |-> SnapVariant(cs[k], k, ks[k])]
                once == SnapsOf(A, <<>>)
            IN  /\ ours_snaps = IF swap THEN once ELSE dup
                /\ cemu_snaps = IF swap THEN dup ELSE once

SpecDup == InitDup /\ [][NextSparse]_vars

\* the last snapshot of a list, in file order, that has the cycle value c
LastOf(snaps, c) == snaps[SetMax({k \in DOMAIN snaps : snaps[k].cycle = c})]
\* a list without the snapshots that a later one of the same cycle follows
LastOnly(snaps) == SelectSeq(snaps, LAMBDA sn : sn = LastOf(snaps, sn.cycle))
HasRepeat(snaps) == Cardinality(CyclesOf(snaps)) < Len(snaps)

\* C16: a sparse trace that lists a cycle value several times is accepted:
\* the run goes on to its summary and exit status; the index maps each cycle
\* to the last snapshot of that cycle in file order, that snapshot is the one
\* compared and recorded, and the common cycles, the match count and the
\* divergences are those of the traces with every earlier snapshot of a
\* repeated cycle removed.
C16_LastDuplicateWins ==
    mode = "sparse" =>
        /\ phase # "done" => ENABLED NextSparse
        /\ phase \in {"compare", "done"} =>
              /\ DOMAIN ours_by_cycle = CyclesOf(ours_snaps)
              /\ DOMAIN cemu_by_cycle = CyclesOf(cemu_snaps)
              /\ \A c \in DOMAIN ours_by_cycle : ours_by_cycle[c] = LastOf(ours_snaps, c)
              /\ \A c \in DOMAIN cemu_by_cycle : cemu_by_cycle[c] = LastOf(cemu_snaps, c)
              /\ Len(compared) <= Len(common_cycles)
              /\ \A k \in DOMAIN compared : compared[k] = common_cycles[k]
              /\ \A k \in DOMAIN divergences :
                    /\ divergences[k].ours = LastOf(ours_snaps, divergences[k].cycle)
                    /\ divergences[k].cemu = LastOf(cemu_snaps, divergences[k].cycle)
        /\ phase = "done" =>
              /\ [common_cycles |-> common_cycles, matches |-> matches,
                  divergences |-> divergences]
                    = MainResult(LastOnly(cemu_snaps), LastOnly(ours_snaps))
              /\ Len(compared) = Cardinality(AlignedCycles)
              /\ exit_code = Some(IF divergences = <<>> THEN 0 ELSE 1)

\* our trace lists cycle 0 twice, first with another pc and then in agreement
\* with the other trace: the run ends with one match and no divergence
C16_Witness ==
    /\ SparseDone /\ HasRepeat(ours_snaps)
    /\ Len(ours_snaps) = 2
    /\ ours_snaps[1].cycle = 0 /\ ours_snaps[2].cycle = 0
    /\ ours_snaps[1].pc # ours_snaps[2].pc
    /\ cemu_snaps = <<BaseSnap(0, 1)>>
    /\ matches = 1 /\ divergences = <<>> /\ exit_code = Some(0)

====
